---------------------------- MODULE Spec2Model ----------------------------
(***************************************************************************)
(* Model of the evm-indexer pipeline.                                      *)
(*                                                                         *)
(*   bin/indexer.rs : main (driver loop), sync_chain (backfill pass),      *)
(*                    fetch_block (block assembler), subscribe_heads       *)
(*                    (head subscriber and its per-block tasks)            *)
(*   src/fetcher.rs : fetch_blocks (multi-provider backfill)               *)
(*                                                                         *)
(* The database and the RPC client are not part of the sources; the RPC    *)
(* client is the environment (its answers are inputs), the database        *)
(* operations are modelled from the specification.                         *)
(***************************************************************************)
EXTENDS Integers, Sequences, FiniteSets, TLC

(***************************************************************************)
(* Bounds of the model.                                                    *)
(***************************************************************************)
InitTip   == 3      \* chain tip when the process first starts
MaxHeads  == 1      \* new heads announced during a run
MaxFaults == 1      \* injected faults: bad provider answers, storage failures, terminations
MaxGap       == 4   \* fetch_blocks: longest block range
MaxProviders == 2   \* fetch_blocks: providers
MaxBatch     == 2   \* fetch_blocks: config.batch_size
MaxWorkers   == 2   \* fetch_blocks: config.workers

(***************************************************************************)
(* Configuration (EVMIndexerConfig).                                       *)
(***************************************************************************)
StartBlock == 1     \* config.start_block
BatchSize  == 2     \* config.batch_size

MaxTip == InitTip + MaxHeads
Blocks == StartBlock..MaxTip

Min(a, b) == IF a < b THEN a ELSE b

(***************************************************************************)
(* The chain: block n declares Declared(n) transactions, TxIds(n).          *)
(***************************************************************************)
Declared(n) == n % 3
TxIds(n) == 1..Declared(n)

VARIABLES
  \* ---- environment and storage
  chainTip,        \* rpc.get_last_block(): highest block number of the chain
  bulk,            \* chain.supports_blocks_receipts
  blocksTbl,       \* blocks table: numbers of the stored block rows
  txsTbl,          \* transactions table: block number -> stored transactions
  rcTbl,           \* receipts table: block number -> stored receipts
  persisted,       \* the persisted IndexedBlockSet (get/store_indexed_blocks)
  chain_state,     \* DatabaseChainIndexedState.indexed_blocks_amount
  faults,          \* faults injected so far
  \* ---- main / sync_chain
  mainPc,
  finished_initial_sync,
  indexed_blocks,  \* sync_chain's local copy of the set
  missing_blocks,  \* sync_chain's missing list
  chunkNo,         \* index of the chunk being processed (1-based)
  results,         \* chunk block number -> result of its fetch_block
  db_blocks,       \* numbers of the blocks pushed to db_blocks for this chunk
  \* ---- subscribe_heads
  hsPc,            \* the supervising task
  stream,          \* the subscription stream
  heads,           \* block number -> per-block task
  \* ---- history
  submitted,       \* every bundle handed to store_data
  preStored,       \* blocks completely stored when the process was last terminated
  refetched        \* blocks of preStored fetched again by a backfill pass

envVars  == <<chainTip, bulk, blocksTbl, txsTbl, rcTbl, persisted, chain_state, faults>>
mainVars == <<mainPc, finished_initial_sync, indexed_blocks, missing_blocks, chunkNo,
              results, db_blocks>>
headVars == <<hsPc, stream, heads>>
histVars == <<submitted, preStored, refetched>>
indexerVars == <<envVars, mainVars, headVars, histVars>>

VARIABLES
  \* ---- fetch_blocks (src/fetcher.rs)
  fb_pc,               \* position of fetch_blocks
  fb_start,            \* config.start_block
  fb_last,             \* providers[0].get_last_block()
  fb_providers,        \* providers.len()
  fb_batch,            \* config.batch_size
  fb_workers,          \* config.workers
  fb_db,               \* block numbers in the database (db.get_block_numbers())
  fb_missing,          \* missing_blocks
  fb_providers_chunk,  \* providers_chunk
  fb_tasks,            \* provider index -> its spawned task
  fb_faults,           \* faults injected into this call
  \* ---- history
  fb_db0,              \* the database when fetch_blocks was called
  fb_log               \* provider index -> the super-chunks fetched and batches stored

fetcherVars == <<fb_pc, fb_start, fb_last, fb_providers, fb_batch, fb_workers, fb_db,
                 fb_missing, fb_providers_chunk, fb_tasks, fb_faults, fb_db0, fb_log>>

VARIABLES
  \* ---- ERC20TransfersParser (src/parsers/erc20_transfers_parser.rs)
  chain_logs,          \* log -> the log as emitted on the chain (topics, data, address)
  logsTbl,             \* evm_transactions_logs: log -> erc20_transfers_parsed, or "absent"
  transfersTbl,        \* evm_erc20_transfers: the stored rows, in insertion order
  psPc,                \* parser task -> its position in fetch / parse
  page,                \* parser task -> logs: the page fetch returned
  db_erc20_transfers,  \* parser task -> the rows parse collected
  db_parsed_logs,      \* parser task -> the logs parse marked
  psFaults,            \* faults injected so far
  \* ---- history
  firstTransfer,       \* log -> the first transfer row stored for it
  reparsed             \* logs whose row was inserted again while a row was stored

parserVars == <<chain_logs, logsTbl, transfersTbl, psPc, page, db_erc20_transfers,
                db_parsed_logs, psFaults, firstTransfer, reparsed>>

vars == <<indexerVars, fetcherVars, parserVars>>

(***************************************************************************)
(* RPC client: the answers a provider can give.                            *)
(***************************************************************************)
Err  == [kind |-> "err"]
None == [kind |-> "none"]
Panic == [kind |-> "panic"]
Pending == [kind |-> "pending"]

\* rpc.get_block(n): an error, no block, or the block (with its declared
\* transaction count) and the transactions that could be formatted
GetBlockAnswers(n) ==
  {Err, None} \cup
  {[kind |-> "some", declared |-> Declared(n), txs |-> t] : t \in SUBSET TxIds(n)}

\* rpc.get_block_receipts(n): an error, nothing, or receipts of the block
GetBlockReceiptsAnswers(n) ==
  {Err, None} \cup {[kind |-> "some", receipts |-> r] : r \in SUBSET TxIds(n)}

\* rpc.get_transaction_receipt(hash), one answer per transaction of the block
GetTransactionReceiptAnswers(n) ==
  {[kind |-> "each", of |-> f] : f \in [TxIds(n) -> {"err", "none", "some"}]}

ReceiptAnswers(n, supports_blocks_receipts) ==
  IF supports_blocks_receipts THEN GetBlockReceiptsAnswers(n)
  ELSE GetTransactionReceiptAnswers(n)

\* an answer other than the complete one
FaultyBlock(n, b) == b.kind # "some" \/ b.txs # TxIds(n)
FaultyReceipts(n, r) ==
  IF r.kind = "each" THEN \E t \in TxIds(n) : r.of[t] # "some"
  ELSE r.kind # "some" \/ r.receipts # TxIds(n)
Faulty(n, b, r) == FaultyBlock(n, b) \/ FaultyReceipts(n, r)

(***************************************************************************)
(* fetch_block (bin/indexer.rs 153-244): the block assembler.              *)
(***************************************************************************)
\* lines 184-213: the receipts of the block, Panic (an unwrap of an Err) or
\* None (no bulk answer)
fetch_receipts(txs, supports_blocks_receipts, r) ==
  IF supports_blocks_receipts
  THEN IF r.kind = "err" THEN Panic
       ELSE IF r.kind = "none" THEN None
       ELSE [kind |-> "some", receipts |-> r.receipts]
  ELSE IF \E t \in txs : r.of[t] = "err" THEN Panic
       ELSE [kind |-> "some", receipts |-> {t \in txs : r.of[t] = "some"}]

\* lines 171-178: the declared count against the transaction list
transactions_complete(declared, txs) == declared = Cardinality(txs)

\* (mutant) the receipt count is not looked at
receipts_unchecked(txs, receipts) == TRUE

\* lines 215-223: the receipts against the transaction list
receipts_complete(txs, receipts) == Cardinality(txs) = Cardinality(receipts)

fetch_block(n, supports_blocks_receipts, b, r) ==
  IF b.kind = "err" THEN Panic
  ELSE IF b.kind = "none" THEN None
  ELSE IF ~transactions_complete(b.declared, b.txs) THEN None
  ELSE LET rc == fetch_receipts(b.txs, supports_blocks_receipts, r) IN
       IF rc.kind # "some" THEN rc
       ELSE IF ~receipts_complete(b.txs, rc.receipts) THEN None
       ELSE [kind |-> "some", number |-> n, declared |-> b.declared,
             txs |-> b.txs, receipts |-> rc.receipts]

(***************************************************************************)
(* Store (not in the sources).                                             *)
(***************************************************************************)
Tables == {"blocks", "transactions", "receipts"}

\* a block whose whole bundle is in the tables
FullyStored(n) ==
  n \in blocksTbl /\ txsTbl[n] = TxIds(n) /\ rcTbl[n] = TxIds(n)

\* db.store_data: insert-or-ignore of the bundles, table by table; `written`
\* are the tables whose insert succeeded (no transaction spans the tables)
store_data(bundles, written) ==
  /\ blocksTbl' = IF "blocks" \in written
                  THEN blocksTbl \cup {b.number : b \in bundles} ELSE blocksTbl
  /\ txsTbl' = IF "transactions" \in written
               THEN [n \in Blocks |->
                      txsTbl[n] \cup UNION {b.txs : b \in {x \in bundles : x.number = n}}]
               ELSE txsTbl
  /\ rcTbl' = IF "receipts" \in written
              THEN [n \in Blocks |->
                     rcTbl[n] \cup UNION {b.receipts : b \in {x \in bundles : x.number = n}}]
              ELSE rcTbl
  /\ submitted' = submitted \cup bundles

\* the outcomes of one store_data call: complete, or a failure that costs a fault
StoreOutcomes(bundles) ==
  IF bundles # {} /\ faults < MaxFaults THEN SUBSET Tables ELSE {Tables}

\* db.get_indexed_blocks
get_indexed_blocks == persisted

\* db.store_indexed_blocks(set): the persisted set becomes `set`
store_indexed_blocks(set) == persisted' = set

(***************************************************************************)
(* Gap computation and chunking.                                           *)
(***************************************************************************)
\* start..last (exclusive), ascending
full_block_range(start, last) == [i \in 1..(last - start) |-> start + i - 1]

\* sync_chain 97-100
MissingBlocks(start, last, indexed) ==
  SelectSeq(full_block_range(start, last), LAMBDA n : n \notin indexed)

\* slice::chunks(size): the number of chunks and the k-th chunk
NumChunks(seq, size) == (Len(seq) + size - 1) \div size
Chunk(seq, size, k) == SubSeq(seq, (k - 1) * size + 1, Min(k * size, Len(seq)))
SeqSet(seq) == {seq[i] : i \in DOMAIN seq}


(***************************************************************************)
(* main and sync_chain (bin/indexer.rs 21-151).                            *)
(***************************************************************************)
\* the outcomes of a call that may fail: TRUE, or FALSE at the cost of a fault
CallOutcomes == IF faults < MaxFaults THEN {TRUE, FALSE} ELSE {TRUE}

\* join_all over the calls of a chunk: every one of them has completed
any_joined(rs) == \E n \in DOMAIN rs : rs[n] # Pending

all_joined(rs) == \A n \in DOMAIN rs : rs[n] # Pending

PendingAll(chunk) == [n \in SeqSet(chunk) |-> Pending]

\* the process is not running: terminated from outside, or main has panicked
DownStates == {"down", "panic_sync_begin", "panic_fetch_block", "panic_checkpoint"}

\* the process is gone: a panic that unwinds main, or an external termination;
\* every task and every local dies with it
ProcessDown(pc) ==
  /\ mainPc' = pc
  /\ finished_initial_sync' = FALSE
  /\ indexed_blocks' = {}
  /\ missing_blocks' = <<>>
  /\ chunkNo' = 0
  /\ results' = <<>>
  /\ db_blocks' = {}
  /\ hsPc' = "unspawned"
  /\ stream' = "none"
  /\ heads' = <<>>
  /\ preStored' = preStored \cup {n \in Blocks : FullyStored(n)}

\* sync_chain 84-106: the tip, the persisted set, the progress row, the gap.
\* Each of the three calls is unwrapped: an error panics.
SyncBegin ==
  /\ mainPc = "sync_chain"
  /\ \E ok \in CallOutcomes :
       IF ok
       THEN LET last_block == chainTip
                set == get_indexed_blocks
                miss == MissingBlocks(StartBlock, last_block, set)
            IN /\ indexed_blocks' = set
               /\ chain_state' = Cardinality(set)
               /\ missing_blocks' = miss
               /\ chunkNo' = IF miss = <<>> THEN 0 ELSE 1
               /\ results' = IF miss = <<>> THEN <<>>
                             ELSE PendingAll(Chunk(miss, BatchSize, 1))
               /\ db_blocks' = {}
               /\ mainPc' = IF miss = <<>> THEN "synced" ELSE "fetch"
               /\ UNCHANGED <<faults, finished_initial_sync, headVars, preStored>>
       ELSE /\ faults' = faults + 1
            /\ ProcessDown("panic_sync_begin")
            /\ UNCHANGED chain_state
  /\ UNCHANGED <<chainTip, bulk, blocksTbl, txsTbl, rcTbl, persisted, submitted, refetched>>
  /\ UNCHANGED <<fetcherVars, parserVars>>

\* sync_chain 111-115: one fetch_block of the chunk completes (join_all polls
\* them in any order); a panic inside it unwinds sync_chain and main
FetchBackfill(n) ==
  /\ mainPc = "fetch"
  /\ n \in DOMAIN results
  /\ results[n] = Pending
  /\ \E b \in GetBlockAnswers(n), r \in ReceiptAnswers(n, bulk) :
       LET res == fetch_block(n, bulk, b, r) IN
       /\ Faulty(n, b, r) => faults < MaxFaults
       /\ faults' = IF Faulty(n, b, r) THEN faults + 1 ELSE faults
       /\ refetched' = refetched \cup ({n} \cap preStored)
       /\ IF res = Panic
          THEN ProcessDown("panic_fetch_block")
          ELSE /\ results' = [results EXCEPT ![n] = res]
               /\ UNCHANGED <<mainPc, finished_initial_sync, indexed_blocks,
                              missing_blocks, chunkNo, db_blocks, headVars, preStored>>
  /\ UNCHANGED <<chainTip, bulk, blocksTbl, txsTbl, rcTbl, persisted, chain_state, submitted>>
  /\ UNCHANGED <<fetcherVars, parserVars>>

\* sync_chain 115-143: after the join, the bundles are merged and stored in one
\* store_data call whose outcome is not looked at
StoreChunk ==
  /\ mainPc = "fetch"
  /\ all_joined(results)
  /\ LET bundles == {results[n] : n \in {m \in DOMAIN results : results[m].kind = "some"}} IN
     \E written \in StoreOutcomes(bundles) :
       /\ store_data(bundles, written)
       /\ faults' = IF written = Tables THEN faults ELSE faults + 1
       /\ db_blocks' = {b.number : b \in bundles}
  /\ mainPc' = "checkpoint"
  /\ UNCHANGED <<chainTip, bulk, persisted, chain_state, finished_initial_sync,
                 indexed_blocks, missing_blocks, chunkNo, results, headVars,
                 preStored, refetched>>
  /\ UNCHANGED <<fetcherVars, parserVars>>

\* sync_chain 145-150: the chunk's numbers join the local set, which is written
\* whole (unwrapped: an error panics); then the next chunk, or the pass is over
CheckpointChunk ==
  /\ mainPc = "checkpoint"
  /\ \E ok \in CallOutcomes :
       IF ok
       THEN LET set == indexed_blocks \cup db_blocks
                more == chunkNo < NumChunks(missing_blocks, BatchSize)
            IN /\ indexed_blocks' = set
               /\ store_indexed_blocks(set)
               /\ chunkNo' = IF more THEN chunkNo + 1 ELSE chunkNo
               /\ results' = IF more
                             THEN PendingAll(Chunk(missing_blocks, BatchSize, chunkNo + 1))
                             ELSE results
               /\ db_blocks' = {}
               /\ mainPc' = IF more THEN "fetch" ELSE "synced"
               /\ UNCHANGED <<faults, finished_initial_sync, missing_blocks, headVars, preStored>>
       ELSE /\ faults' = faults + 1
            /\ ProcessDown("panic_checkpoint")
            /\ UNCHANGED persisted
  /\ UNCHANGED <<chainTip, bulk, blocksTbl, txsTbl, rcTbl, chain_state, submitted, refetched>>
  /\ UNCHANGED <<fetcherVars, parserVars>>

\* main 59-76: after the first pass the head subscriber is spawned; then the
\* driver sleeps and runs the next pass
AfterSync ==
  /\ mainPc = "synced"
  /\ hsPc' = IF ~finished_initial_sync THEN "connect" ELSE hsPc
  /\ finished_initial_sync' = TRUE
  /\ mainPc' = "sync_chain"
  /\ UNCHANGED <<envVars, indexed_blocks, missing_blocks, chunkNo, results, db_blocks,
                 stream, heads, histVars>>
  /\ UNCHANGED <<fetcherVars, parserVars>>

\* the process is terminated from outside, at any point
Terminate ==
  /\ mainPc \notin DownStates
  /\ faults < MaxFaults
  /\ faults' = faults + 1
  /\ ProcessDown("down")
  /\ UNCHANGED <<chainTip, bulk, blocksTbl, txsTbl, rcTbl, persisted, chain_state,
                 submitted, refetched>>
  /\ UNCHANGED <<fetcherVars, parserVars>>

\* and started again: main runs from its first line
Restart ==
  /\ mainPc \in DownStates
  /\ mainPc' = "sync_chain"
  /\ UNCHANGED <<envVars, finished_initial_sync, indexed_blocks, missing_blocks, chunkNo,
                 results, db_blocks, headVars, histVars>>
  /\ UNCHANGED <<fetcherVars, parserVars>>


(***************************************************************************)
(* subscribe_heads and its supervising loop (bin/indexer.rs 60-72,         *)
(* 246-313).                                                               *)
(***************************************************************************)
\* 247-250, 311: the websocket is opened; when it cannot be, subscribe_heads
\* returns to the supervising loop
Connect ==
  /\ hsPc = "connect"
  /\ \E ok \in CallOutcomes :
       /\ hsPc' = IF ok THEN "subscribe" ELSE "sleep"
       /\ faults' = IF ok THEN faults ELSE faults + 1
  /\ UNCHANGED <<chainTip, bulk, blocksTbl, txsTbl, rcTbl, persisted, chain_state,
                 mainVars, stream, heads, histVars>>
  /\ UNCHANGED <<fetcherVars, parserVars>>

\* 256: the subscription request, unwrapped: an error panics the supervising task
Subscribe ==
  /\ hsPc = "subscribe"
  /\ \E ok \in CallOutcomes :
       /\ hsPc' = IF ok THEN "listening" ELSE "panicked"
       /\ stream' = IF ok THEN "live" ELSE stream
       /\ faults' = IF ok THEN faults ELSE faults + 1
  /\ UNCHANGED <<chainTip, bulk, blocksTbl, txsTbl, rcTbl, persisted, chain_state,
                 mainVars, heads, histVars>>
  /\ UNCHANGED <<fetcherVars, parserVars>>

\* main 69: the supervising loop sleeps, then calls subscribe_heads again
Resubscribe ==
  /\ hsPc = "sleep"
  /\ hsPc' = "connect"
  /\ UNCHANGED <<envVars, mainVars, stream, heads, histVars>>
  /\ UNCHANGED <<fetcherVars, parserVars>>

\* a new block is produced; a listening subscriber is notified (259-303) and
\* spawns the block's task
NewHead ==
  /\ mainPc \notin DownStates
  /\ chainTip < MaxTip
  /\ chainTip' = chainTip + 1
  /\ heads' = IF hsPc = "listening" /\ stream = "live"
              THEN [n \in DOMAIN heads \cup {chainTip + 1} |->
                     IF n = chainTip + 1 THEN [pc |-> "fetch", bundle |-> None, set |-> {}]
                     ELSE heads[n]]
              ELSE heads
  /\ UNCHANGED <<bulk, blocksTbl, txsTbl, rcTbl, persisted, chain_state, faults,
                 mainVars, hsPc, stream, histVars>>
  /\ UNCHANGED <<fetcherVars, parserVars>>

\* the provider ends the stream
StreamEnds ==
  /\ hsPc = "listening"
  /\ stream = "live"
  /\ faults < MaxFaults
  /\ faults' = faults + 1
  /\ stream' = "ended"
  /\ UNCHANGED <<chainTip, bulk, blocksTbl, txsTbl, rcTbl, persisted, chain_state,
                 mainVars, hsPc, heads, histVars>>
  /\ UNCHANGED <<fetcherVars, parserVars>>

\* 259-260, 305-307: sub.next() gives None on an ended stream (or an Err item),
\* and the loop continues with the next sub.next()
PollNothing ==
  /\ hsPc = "listening"
  /\ stream = "ended"
  /\ UNCHANGED vars

RemoveTask(n) == [m \in DOMAIN heads \ {n} |-> heads[m]]

\* 274: the task's fetch_block; a panic ends this task alone
HeadFetch(n) ==
  /\ n \in DOMAIN heads
  /\ heads[n].pc = "fetch"
  /\ \E b \in GetBlockAnswers(n), r \in ReceiptAnswers(n, bulk) :
       LET res == fetch_block(n, bulk, b, r) IN
       /\ Faulty(n, b, r) => faults < MaxFaults
       /\ faults' = IF Faulty(n, b, r) THEN faults + 1 ELSE faults
       /\ heads' = IF res.kind = "some"
                   THEN [heads EXCEPT ![n] = [pc |-> "store", bundle |-> res, set |-> {}]]
                   ELSE RemoveTask(n)
  /\ UNCHANGED <<chainTip, bulk, blocksTbl, txsTbl, rcTbl, persisted, chain_state,
                 mainVars, hsPc, stream, histVars>>
  /\ UNCHANGED <<fetcherVars, parserVars>>

\* 284-291: the bundle is stored; the outcome is not looked at
HeadStore(n) ==
  /\ n \in DOMAIN heads
  /\ heads[n].pc = "store"
  /\ \E written \in StoreOutcomes({heads[n].bundle}) :
       /\ store_data({heads[n].bundle}, written)
       /\ faults' = IF written = Tables THEN faults ELSE faults + 1
  /\ heads' = [heads EXCEPT ![n].pc = "read"]
  /\ UNCHANGED <<chainTip, bulk, persisted, chain_state, mainVars, hsPc, stream,
                 preStored, refetched>>
  /\ UNCHANGED <<fetcherVars, parserVars>>

\* 293-294: the task reads the persisted set (unwrapped)
HeadRead(n) ==
  /\ n \in DOMAIN heads
  /\ heads[n].pc = "read"
  /\ \E ok \in CallOutcomes :
       /\ heads' = IF ok
                   THEN [heads EXCEPT ![n] = [pc |-> "write", bundle |-> None,
                                              set |-> get_indexed_blocks]]
                   ELSE RemoveTask(n)
       /\ faults' = IF ok THEN faults ELSE faults + 1
  /\ UNCHANGED <<chainTip, bulk, blocksTbl, txsTbl, rcTbl, persisted, chain_state,
                 mainVars, hsPc, stream, histVars>>
  /\ UNCHANGED <<fetcherVars, parserVars>>

\* 296-298: the number joins the task's copy, which is written whole (unwrapped)
HeadWrite(n) ==
  /\ n \in DOMAIN heads
  /\ heads[n].pc = "write"
  /\ \E ok \in CallOutcomes :
       /\ IF ok THEN store_indexed_blocks(heads[n].set \cup {n})
                ELSE UNCHANGED persisted
       /\ faults' = IF ok THEN faults ELSE faults + 1
  /\ heads' = RemoveTask(n)
  /\ UNCHANGED <<chainTip, bulk, blocksTbl, txsTbl, rcTbl, chain_state,
                 mainVars, hsPc, stream, histVars>>
  /\ UNCHANGED <<fetcherVars, parserVars>>

(***************************************************************************)
(* The indexer: bin/indexer.rs as a whole.                                 *)
(***************************************************************************)
IndexerInit ==
  /\ chainTip = InitTip
  /\ bulk \in BOOLEAN
  /\ blocksTbl = {}
  /\ txsTbl = [n \in Blocks |-> {}]
  /\ rcTbl = [n \in Blocks |-> {}]
  /\ persisted = {}
  /\ chain_state = 0
  /\ faults = 0
  /\ mainPc = "sync_chain"
  /\ finished_initial_sync = FALSE
  /\ indexed_blocks = {}
  /\ missing_blocks = <<>>
  /\ chunkNo = 0
  /\ results = <<>>
  /\ db_blocks = {}
  /\ hsPc = "unspawned"
  /\ stream = "none"
  /\ heads = <<>>
  /\ submitted = {}
  /\ preStored = {}
  /\ refetched = {}

(***************************************************************************)
(* fetch_blocks (src/fetcher.rs 16-117).                                   *)
(***************************************************************************)
\* slice::chunks(size) as a sequence of chunks (size > 0)
ChunksOf(seq, size) == [k \in 1..NumChunks(seq, size) |-> Chunk(seq, size, k)]

\* (mutant) the range includes the tip
full_blocks_set_inclusive(start, last) == [i \in 1..(last - start + 1) |-> start + i - 1]

\* 19: (config.start_block..rpc_last_block).collect()
full_blocks_set(start, last) == [i \in 1..(last - start) |-> start + i - 1]

\* 23-26
missing_blocks_of(start, last, db_blocks_set) ==
  SelectSeq(full_blocks_set(start, last), LAMBDA n : n \notin db_blocks_set)

\* 38: the chunk size of the partition
providers_chunk_size(missing_blocks_amount, providers_amount) ==
  missing_blocks_amount \div providers_amount

\* 36-41: providers_chunk
providers_chunk_of(missing, providers_amount) ==
  ChunksOf(missing, providers_chunk_size(Len(missing), providers_amount))

\* (mutant) the workers are left out of the super-chunk size
SuperChunkSize_one_worker == fb_batch

\* (mutant) the whole slice is taken as one super-chunk
SuperChunkSize_whole_slice == Len(fb_missing) + 1

\* 52: the k-th super-chunk of provider i, and 55: its batches
SuperChunkSize == fb_batch * fb_workers
SuperChunk(i, k) == Chunk(fb_providers_chunk[i], SuperChunkSize, k)
Batches(i, k) == ChunksOf(SuperChunk(i, k), fb_batch)

\* rpc.get_blocks(batch): an error, or the records of the blocks it could
\* assemble, whose receipts match its transactions or not
GetBlocksAnswers(batch) ==
  {Err} \cup {[kind |-> "ok", blocks |-> bs, receipts_ok |-> r] :
                bs \in SUBSET SeqSet(batch), r \in BOOLEAN}
FaultyBatch(batch, a) ==
  a.kind # "ok" \/ a.blocks # SeqSet(batch) \/ ~a.receipts_ok

FbCallOutcomes == IF fb_faults < MaxFaults THEN {TRUE, FALSE} ELSE {TRUE}

\* 63-65: the get_blocks calls of super-chunk k are created
Dispatch(i, k) ==
  [pc |-> "fetch", k |-> k,
   responses |-> [j \in DOMAIN Batches(i, k) |-> Pending],
   stores |-> {}]

\* 17-26: the tip and the stored block numbers (both unwrapped), the gap
FBegin ==
  /\ fb_pc = "begin"
  /\ \E ok \in FbCallOutcomes :
       /\ fb_faults' = IF ok THEN fb_faults ELSE fb_faults + 1
       /\ fb_pc' = IF ok THEN "partition" ELSE "panic_begin"
       /\ fb_missing' = IF ok THEN missing_blocks_of(fb_start, fb_last, fb_db)
                        ELSE fb_missing
  /\ UNCHANGED <<fb_start, fb_last, fb_providers, fb_batch, fb_workers, fb_db,
                 fb_providers_chunk, fb_tasks, fb_db0, fb_log>>
  /\ UNCHANGED <<indexerVars, parserVars>>

\* 28-41: the partition; chunks(0) panics
FPartition ==
  /\ fb_pc = "partition"
  /\ IF providers_chunk_size(Len(fb_missing), fb_providers) = 0
     THEN /\ fb_pc' = "panic_partition"
          /\ UNCHANGED fb_providers_chunk
     ELSE /\ fb_pc' = "spawn"
          /\ fb_providers_chunk' = providers_chunk_of(fb_missing, fb_providers)
  /\ UNCHANGED <<fb_start, fb_last, fb_providers, fb_batch, fb_workers, fb_db,
                 fb_missing, fb_tasks, fb_faults, fb_db0, fb_log>>
  /\ UNCHANGED <<indexerVars, parserVars>>

\* 43-112: one task per provider is spawned on providers_chunk[i]; each starts
\* with its first super-chunk (52-65)
FSpawn ==
  /\ fb_pc = "spawn"
  /\ fb_pc' = "join"
  /\ fb_tasks' = [i \in 1..fb_providers |-> Dispatch(i, 1)]
  /\ fb_log' = [i \in 1..fb_providers |-> <<[op |-> "fetch", blocks |-> SuperChunk(i, 1)]>>]
  /\ UNCHANGED <<fb_start, fb_last, fb_providers, fb_batch, fb_workers, fb_db,
                 fb_missing, fb_providers_chunk, fb_faults, fb_db0>>
  /\ UNCHANGED <<indexerVars, parserVars>>

\* 64, 67: one get_blocks call of the super-chunk answers
GetBlocks(i, j) ==
  /\ fb_pc = "join"
  /\ i \in DOMAIN fb_tasks
  /\ fb_tasks[i].pc = "fetch"
  /\ j \in DOMAIN fb_tasks[i].responses
  /\ fb_tasks[i].responses[j] = Pending
  /\ \E a \in GetBlocksAnswers(Batches(i, fb_tasks[i].k)[j]) :
       /\ FaultyBatch(Batches(i, fb_tasks[i].k)[j], a) => fb_faults < MaxFaults
       /\ fb_faults' = IF FaultyBatch(Batches(i, fb_tasks[i].k)[j], a)
                       THEN fb_faults + 1 ELSE fb_faults
       /\ fb_tasks' = [fb_tasks EXCEPT ![i].responses[j] = a]
  /\ UNCHANGED <<fb_pc, fb_start, fb_last, fb_providers, fb_batch, fb_workers, fb_db,
                 fb_missing, fb_providers_chunk, fb_db0, fb_log>>
  /\ UNCHANGED <<indexerVars, parserVars>>

\* 87-94: a batch whose receipts do not match its transactions is left out
batch_complete(a) == a.receipts_ok

\* 67-105: after the join the responses are unwrapped (an Err panics the task,
\* and the store futures created so far are dropped unrun); the store calls of
\* the complete batches are created
Collect(i) ==
  /\ fb_pc = "join"
  /\ i \in DOMAIN fb_tasks
  /\ fb_tasks[i].pc = "fetch"
  /\ all_joined(fb_tasks[i].responses)
  /\ fb_tasks' =
       IF \E j \in DOMAIN fb_tasks[i].responses : fb_tasks[i].responses[j].kind = "err"
       THEN [fb_tasks EXCEPT ![i].pc = "panicked"]
       ELSE [fb_tasks EXCEPT ![i].pc = "store",
                             ![i].stores = {j \in DOMAIN fb_tasks[i].responses :
                                              /\ fb_tasks[i].responses[j].kind = "ok"
                                              /\ batch_complete(fb_tasks[i].responses[j])}]
  /\ UNCHANGED <<fb_pc, fb_start, fb_last, fb_providers, fb_batch, fb_workers, fb_db,
                 fb_missing, fb_providers_chunk, fb_faults, fb_db0, fb_log>>
  /\ UNCHANGED <<indexerVars, parserVars>>

\* db.store_blocks_and_txs (not in the sources): insert-or-ignore of the batch
store_blocks_and_txs(blocks) == fb_db' = fb_db \cup blocks

\* 96-107: one store call of the super-chunk completes; its outcome is dropped
StoreBatch(i, j) ==
  /\ fb_pc = "join"
  /\ i \in DOMAIN fb_tasks
  /\ fb_tasks[i].pc = "store"
  /\ j \in fb_tasks[i].stores
  /\ \E ok \in FbCallOutcomes :
       /\ fb_faults' = IF ok THEN fb_faults ELSE fb_faults + 1
       /\ IF ok THEN store_blocks_and_txs(fb_tasks[i].responses[j].blocks)
                ELSE UNCHANGED fb_db
  /\ fb_tasks' = [fb_tasks EXCEPT ![i].stores = @ \ {j}]
  /\ fb_log' = [fb_log EXCEPT ![i] =
                  Append(@, [op |-> "store", blocks |-> Batches(i, fb_tasks[i].k)[j]])]
  /\ UNCHANGED <<fb_pc, fb_start, fb_last, fb_providers, fb_batch, fb_workers,
                 fb_missing, fb_providers_chunk, fb_db0>>
  /\ UNCHANGED <<indexerVars, parserVars>>

\* 107-108, 52-65: the stores are joined; the next super-chunk, or the task ends
JoinStores(i) ==
  /\ fb_pc = "join"
  /\ i \in DOMAIN fb_tasks
  /\ fb_tasks[i].pc = "store"
  /\ fb_tasks[i].stores = {}
  /\ LET k == fb_tasks[i].k + 1 IN
     IF k <= NumChunks(fb_providers_chunk[i], SuperChunkSize)
     THEN /\ fb_tasks' = [fb_tasks EXCEPT ![i] = Dispatch(i, k)]
          /\ fb_log' = [fb_log EXCEPT ![i] =
                          Append(@, [op |-> "fetch", blocks |-> SuperChunk(i, k)])]
     ELSE /\ fb_tasks' = [fb_tasks EXCEPT ![i].pc = "done"]
          /\ UNCHANGED fb_log
  /\ UNCHANGED <<fb_pc, fb_start, fb_last, fb_providers, fb_batch, fb_workers, fb_db,
                 fb_missing, fb_providers_chunk, fb_faults, fb_db0>>
  /\ UNCHANGED <<indexerVars, parserVars>>

\* 114-116: every provider task has ended (a panicked task yields a JoinError,
\* which is dropped); Ok(())
task_ended_ok(t) == t.pc = "done"

task_ended(t) == t.pc \in {"done", "panicked"}

FJoin ==
  /\ fb_pc = "join"
  /\ \A i \in DOMAIN fb_tasks : task_ended(fb_tasks[i])
  /\ fb_pc' = "returned"
  /\ UNCHANGED <<fb_start, fb_last, fb_providers, fb_batch, fb_workers, fb_db,
                 fb_missing, fb_providers_chunk, fb_tasks, fb_faults, fb_db0, fb_log>>
  /\ UNCHANGED <<indexerVars, parserVars>>

\* fetch_blocks is not running
FetcherIdle ==
  /\ fb_pc = "idle"
  /\ fb_start = StartBlock
  /\ fb_last = StartBlock
  /\ fb_providers = 1
  /\ fb_batch = 1
  /\ fb_workers = 1
  /\ fb_db = {}
  /\ fb_missing = <<>>
  /\ fb_providers_chunk = <<>>
  /\ fb_tasks = <<>>
  /\ fb_faults = 0
  /\ fb_db0 = {}
  /\ fb_log = <<>>

\* one call of fetch_blocks, for every configuration and database within the bounds
FetcherCall ==
  /\ fb_pc = "begin"
  /\ fb_start = StartBlock
  /\ fb_last \in StartBlock..(StartBlock + MaxGap)
  /\ fb_providers \in 1..MaxProviders
  /\ fb_batch \in 1..MaxBatch
  /\ fb_workers \in 1..MaxWorkers
  /\ fb_db \in SUBSET (StartBlock..(fb_last - 1))
  /\ fb_missing = <<>>
  /\ fb_providers_chunk = <<>>
  /\ fb_tasks = <<>>
  /\ fb_faults = 0
  /\ fb_db0 = fb_db
  /\ fb_log = <<>>

(***************************************************************************)
(* ERC20TransfersParser (src/parsers/erc20_transfers_parser.rs).            *)
(***************************************************************************)
MaxLogs         == 2   \* logs emitted on the chain
PageLimit       == 2   \* rows of a page (.limit(50000), scaled down)
MaxParsers      == 1   \* tasks running fetch / parse
MaxParserFaults == 1   \* injected faults: database errors, terminations

Logs == 1..MaxLogs
Parsers == 1..MaxParsers

\* ---- strings and the conversions applied to them
\* A hex string: well-formed or not, the number of bytes it encodes and their
\* big-endian value.
HexString(len, val) == [wf |-> TRUE, len |-> len, val |-> val]
Malformed == [wf |-> FALSE, len |-> 0, val |-> 0]

WordLen == 32        \* hex_n_into::<_, _, 32>
AddressLen == 20     \* bytes of an address
AddressSpace == 4    \* values of the low 20 bytes of a word (scaled down)

\* array_bytes::hex_n_into::<String, _, N>: the N bytes of a hex string
hex_n_into(s, n) ==
  IF s.wf /\ s.len = n THEN [kind |-> "ok", val |-> s.val] ELSE Err

\* ethabi::decode(&[ParamType::Address], word): the low 20 bytes of the word
decode_address(word) == [kind |-> "ok", tokens |-> <<word % AddressSpace>>]

\* ethabi::decode(&[ParamType::Uint(256)], word): the word as an integer
decode_uint(word) == [kind |-> "ok", tokens |-> <<word>>]

\* format!("{:?}", H256): the full hex of the 32 bytes
format_h256(h) == HexString(WordLen, h)

\* format!("{:?}", Address): the full hex of the 20 bytes
format_address(a) == HexString(AddressLen, a)

\* format!("{:?}", U256): the decimal digits, most significant first
RECURSIVE format_uint(_)
format_uint(v) == IF v < 10 THEN <<v>> ELSE format_uint(v \div 10) \o <<v % 10>>

\* event.signature(): keccak256("Transfer(address,address,uint256)")
TransferSignature == 7
OtherSignature == 5

\* ---- the logs of the chain
Word(v) == HexString(WordLen, v)

\* the shapes log k is drawn from.  Odd logs: a transfer, a log with two
\* topics, a log whose first topic is absent.  Even logs: a transfer with
\* non-zero high bytes in an address topic, a log with four topics, a log of
\* another event, a transfer whose address topic is malformed hex.
ShapesOf(k) ==
  IF k % 2 = 1
  THEN { [topics |-> <<Word(TransferSignature), Word(1), Word(2)>>, data |-> Word(12)],
         [topics |-> <<Word(TransferSignature), Word(1)>>, data |-> Word(1)],
         [topics |-> <<None, Word(1), Word(2)>>, data |-> Word(1)] }
  ELSE { [topics |-> <<Word(TransferSignature), Word(6), Word(1)>>, data |-> Word(1)],
         [topics |-> <<Word(OtherSignature), Word(1), Word(2)>>, data |-> Word(1)],
         [topics |-> <<Word(TransferSignature), Malformed, Word(1)>>, data |-> Word(1)] }

\* the key (hash, log_index) and the emitting address of log k
LogHash(k) == (k + 1) \div 2
LogIndex(k) == k % 2
LogAddress(k) == k % AddressSpace

LogRow(k, shape) ==
  [hash |-> LogHash(k), log_index |-> LogIndex(k), address |-> format_address(LogAddress(k)),
   topics |-> shape.topics, data |-> shape.data]

\* ---- parse, lines 56-151: one iteration of the loop
Skip == [kind |-> "skip"]

parse_log(log) ==
  IF Len(log.topics) # 3 THEN Skip
  ELSE IF log.topics[1] = None THEN Panic
  ELSE IF log.topics[1] # format_h256(TransferSignature) THEN Skip
  ELSE IF log.topics[2] = None \/ log.topics[3] = None THEN Panic
  ELSE LET topic_2_hash == hex_n_into(log.topics[2], WordLen)
           topic_3_hash == hex_n_into(log.topics[3], WordLen)
           data_bytes   == hex_n_into(log.data, WordLen)
       IN IF topic_2_hash = Err \/ topic_3_hash = Err \/ data_bytes = Err THEN Panic
          ELSE LET from  == decode_address(topic_2_hash.val)
                   to    == decode_address(topic_3_hash.val)
                   value == decode_uint(data_bytes.val)
               IN IF from.kind # "ok" \/ Len(from.tokens) = 0 THEN Skip
                  ELSE IF to.kind # "ok" \/ Len(to.tokens) = 0 THEN Skip
                  ELSE IF value.kind # "ok" \/ Len(value.tokens) = 0 THEN Skip
                  ELSE [kind |-> "transfer",
                        row |-> [hash |-> log.hash,
                                 log_index |-> log.log_index,
                                 token |-> log.address,
                                 from_address |-> format_address(from.tokens[1]),
                                 to_address |-> format_address(to.tokens[1]),
                                 value |-> format_uint(value.tokens[1]),
                                 erc20_tokens_parced |-> "false"]]

\* the loop over the page: the rows collected, or the panic of an unwrap
RECURSIVE parse_logs(_, _)
parse_logs(logs, rows) ==
  IF logs = <<>> THEN [kind |-> "ok", rows |-> rows]
  ELSE LET r == parse_log(Head(logs))
       IN IF r = Panic THEN Panic
          ELSE parse_logs(Tail(logs), IF r = Skip THEN rows ELSE Append(rows, r.row))

\* ---- the tables
RowKey(row) == <<row.hash, row.log_index>>
LogKey(k) == <<LogHash(k), LogIndex(k)>>

\* insert ... on_conflict_do_nothing, one row
insert_transfer_always(tbl, row) == Append(tbl, row)

insert_transfer(tbl, row) ==
  IF \E i \in DOMAIN tbl : RowKey(tbl[i]) = RowKey(row) THEN tbl ELSE Append(tbl, row)

RECURSIVE insert_transfers(_, _)
insert_transfers(tbl, rows) ==
  IF rows = <<>> THEN tbl
  ELSE insert_transfers(insert_transfer(tbl, Head(rows)), Tail(rows))

\* insert ... on_conflict((hash, log_index)).do_update().set(parsed.eq(true)), one
\* row: a new row carries the flag set at line 59, an existing one is set to true
upsert_parsed_log(tbl, k) == [tbl EXCEPT ![k] = "true"]

RECURSIVE upsert_parsed_logs(_, _)
upsert_parsed_logs(tbl, ks) ==
  IF ks = <<>> THEN tbl
  ELSE upsert_parsed_logs(upsert_parsed_log(tbl, Head(ks)), Tail(ks))

\* store_data inserting a log row: insert-or-ignore on (hash, log_index)
insert_log_replace(tbl, k, flag) == [tbl EXCEPT ![k] = flag]

insert_log(tbl, k, flag) == IF tbl[k] = "absent" THEN [tbl EXCEPT ![k] = flag] ELSE tbl

\* the parse flag of a newly inserted row: null, or false
NewFlag(k) == IF k % 2 = 1 THEN "unset" ELSE "false"

\* the logs fetch selects: parse flag null or false
Unparsed == {k \in Logs : logsTbl[k] \in {"unset", "false"}}

\* the rows of a set in the order of their keys
RECURSIVE Ascending(_)
Ascending(S) ==
  IF S = {} THEN <<>>
  ELSE LET k == CHOOSE x \in S : \A y \in S : x <= y IN <<k>> \o Ascending(S \ {k})

PsCallOutcomes == IF psFaults < MaxParserFaults THEN {TRUE, FALSE} ELSE {TRUE}

\* ---- actions
\* store_data of a backfill pass or of a head task inserts log k (again)
StoreLogs(k) ==
  /\ logsTbl' = insert_log(logsTbl, k, NewFlag(k))
  /\ UNCHANGED <<chain_logs, transfersTbl, psPc, page, db_erc20_transfers, db_parsed_logs,
                 psFaults, firstTransfer, reparsed>>
  /\ UNCHANGED <<indexerVars, fetcherVars>>

\* fetch, lines 28-45: up to PageLimit unparsed logs; a database error gives
\* an empty page
ParserFetch(p) ==
  /\ psPc[p] = "idle"
  /\ \E ok \in PsCallOutcomes :
       IF ok
       THEN /\ \E S \in SUBSET Unparsed :
                 /\ Cardinality(S) = Min(PageLimit, Cardinality(Unparsed))
                 /\ page' = [page EXCEPT ![p] = Ascending(S)]
            /\ UNCHANGED psFaults
       ELSE /\ page' = [page EXCEPT ![p] = <<>>]
            /\ psFaults' = psFaults + 1
  /\ psPc' = [psPc EXCEPT ![p] = "parse"]
  /\ UNCHANGED <<chain_logs, logsTbl, transfersTbl, db_erc20_transfers, db_parsed_logs,
                 firstTransfer, reparsed>>
  /\ UNCHANGED <<indexerVars, fetcherVars>>

\* parse, lines 52-151: the loop over the page
ParseLoop(p) ==
  /\ psPc[p] = "parse"
  /\ LET r == parse_logs([i \in DOMAIN page[p] |-> LogRow(page[p][i], chain_logs[page[p][i]])],
                         <<>>)
     IN IF r = Panic
        THEN /\ psPc' = [psPc EXCEPT ![p] = "panic_decode"]
             /\ UNCHANGED <<db_erc20_transfers, db_parsed_logs>>
        ELSE /\ psPc' = [psPc EXCEPT ![p] = "store_transfers"]
             /\ db_erc20_transfers' = [db_erc20_transfers EXCEPT ![p] = r.rows]
             /\ db_parsed_logs' = [db_parsed_logs EXCEPT ![p] = page[p]]
  /\ UNCHANGED <<chain_logs, logsTbl, transfersTbl, page, psFaults, firstTransfer, reparsed>>
  /\ UNCHANGED <<indexerVars, fetcherVars>>

\* the log of a transfer row
LogOfRow(row) == CHOOSE k \in Logs : LogKey(k) = RowKey(row)

\* parse, lines 153-166: the chunked insert of the transfers; a failing chunk
\* panics (expect) with the rows before it written
StoreTransfers(p) ==
  /\ psPc[p] = "store_transfers"
  /\ \E n \in 0..Len(db_erc20_transfers[p]) :
       /\ n < Len(db_erc20_transfers[p]) => psFaults < MaxParserFaults
       /\ transfersTbl' = insert_transfers(transfersTbl, SubSeq(db_erc20_transfers[p], 1, n))
       /\ firstTransfer' =
            [k \in Logs |->
               IF firstTransfer[k] = None
                  /\ \E i \in 1..n : LogOfRow(db_erc20_transfers[p][i]) = k
               THEN db_erc20_transfers[p][CHOOSE i \in 1..n :
                                            LogOfRow(db_erc20_transfers[p][i]) = k]
               ELSE firstTransfer[k]]
       /\ reparsed' = reparsed \cup
            {k \in Logs : \E i \in 1..n : /\ LogOfRow(db_erc20_transfers[p][i]) = k
                                          /\ firstTransfer[k] # None}
       /\ IF n = Len(db_erc20_transfers[p])
          THEN /\ psPc' = [psPc EXCEPT ![p] = "store_flags"]
               /\ UNCHANGED psFaults
          ELSE /\ psPc' = [psPc EXCEPT ![p] = "panic_store_transfers"]
               /\ psFaults' = psFaults + 1
  /\ UNCHANGED <<chain_logs, logsTbl, page, db_erc20_transfers, db_parsed_logs>>
  /\ UNCHANGED <<indexerVars, fetcherVars>>

\* parse, lines 153-173: the loop that upserts the flags starts when the loop
\* that inserts the transfers has gone through every chunk
flags_before_transfers(p) == psPc[p] \in {"store_transfers", "store_flags"}

flags_follow_transfers(p) == psPc[p] = "store_flags"

\* parse, lines 173-191: the chunked upsert of the parse flags; a failing chunk
\* panics (expect) with the rows before it written; Ok(())
StoreFlags(p) ==
  /\ flags_follow_transfers(p)
  /\ \E n \in 0..Len(db_parsed_logs[p]) :
       /\ n < Len(db_parsed_logs[p]) => psFaults < MaxParserFaults
       /\ logsTbl' = upsert_parsed_logs(logsTbl, SubSeq(db_parsed_logs[p], 1, n))
       /\ IF n = Len(db_parsed_logs[p])
          THEN /\ psPc' = [psPc EXCEPT ![p] = "returned"]
               /\ UNCHANGED psFaults
          ELSE /\ psPc' = [psPc EXCEPT ![p] = "panic_store_flags"]
               /\ psFaults' = psFaults + 1
  /\ UNCHANGED <<chain_logs, transfersTbl, page, db_erc20_transfers, db_parsed_logs,
                 firstTransfer, reparsed>>
  /\ UNCHANGED <<indexerVars, fetcherVars>>

\* the caller goes on to its next fetch
ParserNextPass(p) ==
  /\ psPc[p] = "returned"
  /\ psPc' = [psPc EXCEPT ![p] = "idle"]
  /\ page' = [page EXCEPT ![p] = <<>>]
  /\ db_erc20_transfers' = [db_erc20_transfers EXCEPT ![p] = <<>>]
  /\ db_parsed_logs' = [db_parsed_logs EXCEPT ![p] = <<>>]
  /\ UNCHANGED <<chain_logs, logsTbl, transfersTbl, psFaults, firstTransfer, reparsed>>
  /\ UNCHANGED <<indexerVars, fetcherVars>>

ParserPanics == {"panic_decode", "panic_store_transfers", "panic_store_flags"}

\* the task is terminated while parse is running
ParserCrash(p) ==
  /\ psPc[p] \in {"parse", "store_transfers", "store_flags"}
  /\ psFaults < MaxParserFaults
  /\ psFaults' = psFaults + 1
  /\ psPc' = [psPc EXCEPT ![p] = "down"]
  /\ page' = [page EXCEPT ![p] = <<>>]
  /\ db_erc20_transfers' = [db_erc20_transfers EXCEPT ![p] = <<>>]
  /\ db_parsed_logs' = [db_parsed_logs EXCEPT ![p] = <<>>]
  /\ UNCHANGED <<chain_logs, logsTbl, transfersTbl, firstTransfer, reparsed>>
  /\ UNCHANGED <<indexerVars, fetcherVars>>

\* a task that panicked or was terminated is started again
ParserRestart(p) ==
  /\ psPc[p] \in ParserPanics \cup {"down"}
  /\ psPc' = [psPc EXCEPT ![p] = "idle"]
  /\ page' = [page EXCEPT ![p] = <<>>]
  /\ db_erc20_transfers' = [db_erc20_transfers EXCEPT ![p] = <<>>]
  /\ db_parsed_logs' = [db_parsed_logs EXCEPT ![p] = <<>>]
  /\ UNCHANGED <<chain_logs, logsTbl, transfersTbl, psFaults, firstTransfer, reparsed>>
  /\ UNCHANGED <<indexerVars, fetcherVars>>

\* no parser is running and no log is stored
ParserIdle ==
  /\ chain_logs = [k \in Logs |-> CHOOSE s \in ShapesOf(k) : TRUE]
  /\ logsTbl = [k \in Logs |-> "absent"]
  /\ transfersTbl = <<>>
  /\ psPc = [p \in Parsers |-> "idle"]
  /\ page = [p \in Parsers |-> <<>>]
  /\ db_erc20_transfers = [p \in Parsers |-> <<>>]
  /\ db_parsed_logs = [p \in Parsers |-> <<>>]
  /\ psFaults = 0
  /\ firstTransfer = [k \in Logs |-> None]
  /\ reparsed = {}

\* the parser tasks over every content of the chain's logs
ParserInit ==
  /\ chain_logs \in {f \in [Logs -> UNION {ShapesOf(k) : k \in Logs}] :
                     \A k \in Logs : f[k] \in ShapesOf(k)}
  /\ logsTbl = [k \in Logs |-> "absent"]
  /\ transfersTbl = <<>>
  /\ psPc = [p \in Parsers |-> "idle"]
  /\ page = [p \in Parsers |-> <<>>]
  /\ db_erc20_transfers = [p \in Parsers |-> <<>>]
  /\ db_parsed_logs = [p \in Parsers |-> <<>>]
  /\ psFaults = 0
  /\ firstTransfer = [k \in Logs |-> None]
  /\ reparsed = {}


(***************************************************************************)
(* Specifications.                                                         *)
(***************************************************************************)
\* the indexer binary
Init == IndexerInit /\ FetcherIdle /\ ParserIdle

Next ==
  \/ SyncBegin
  \/ \E n \in Blocks : FetchBackfill(n)
  \/ StoreChunk
  \/ CheckpointChunk
  \/ AfterSync
  \/ Terminate
  \/ Restart
  \/ Connect
  \/ Subscribe
  \/ Resubscribe
  \/ NewHead
  \/ StreamEnds
  \/ PollNothing
  \/ \E n \in Blocks : HeadFetch(n)
  \/ \E n \in Blocks : HeadStore(n)
  \/ \E n \in Blocks : HeadRead(n)
  \/ \E n \in Blocks : HeadWrite(n)

Spec == Init /\ [][Next]_vars

\* the steps of main's driver loop (one sequential task)
MainStep ==
  SyncBegin \/ (\E n \in Blocks : FetchBackfill(n)) \/ StoreChunk \/ CheckpointChunk
  \/ AfterSync

\* the steps of the supervising task of the head subscriber
SupervisorStep == Connect \/ Subscribe \/ Resubscribe

\* the steps of the task of head n
HeadTaskStep(n) == HeadFetch(n) \/ HeadStore(n) \/ HeadRead(n) \/ HeadWrite(n)

\* The runtime runs every task that can take a step, and a process that is down
\* is started again.  New blocks, faults and terminations are not forced.
FairSpec ==
  /\ Spec
  /\ WF_vars(MainStep)
  /\ WF_vars(SupervisorStep)
  /\ \A n \in Blocks : WF_vars(HeadTaskStep(n))
  /\ WF_vars(Restart)

\* the indexer with nothing running
IndexerIdle ==
  /\ IndexerInit
  /\ bulk = TRUE

\* one call of fetch_blocks
FetcherInit == IndexerIdle /\ FetcherCall /\ ParserIdle

FetcherNext ==
  \/ FBegin
  \/ FPartition
  \/ FSpawn
  \/ \E i \in 1..MaxProviders, j \in 1..MaxWorkers : GetBlocks(i, j)
  \/ \E i \in 1..MaxProviders : Collect(i)
  \/ \E i \in 1..MaxProviders, j \in 1..MaxWorkers : StoreBatch(i, j)
  \/ \E i \in 1..MaxProviders : JoinStores(i)
  \/ FJoin

FetcherSpec == FetcherInit /\ [][FetcherNext]_vars

\* the gap computations alone, for every start, tip and stored set in the bounds
GapInit ==
  /\ IndexerIdle
  /\ ParserIdle
  /\ fb_pc = "begin"
  /\ fb_start \in 0..MaxGap
  /\ fb_last \in 0..(MaxGap + 1)
  /\ fb_db \in SUBSET (0..(MaxGap + 1))
  /\ fb_providers = 1
  /\ fb_batch = 1
  /\ fb_workers = 1
  /\ fb_missing = <<>>
  /\ fb_providers_chunk = <<>>
  /\ fb_tasks = <<>>
  /\ fb_faults = 0
  /\ fb_db0 = fb_db
  /\ fb_log = <<>>

\* sync_chain 84-100 applied to the same start, tip and set
SyncGap ==
  /\ mainPc = "sync_chain"
  /\ mainPc' = "gap"
  /\ missing_blocks' = MissingBlocks(fb_start, fb_last, fb_db)
  /\ UNCHANGED <<envVars, finished_initial_sync, indexed_blocks, chunkNo, results,
                 db_blocks, headVars, histVars, fetcherVars, parserVars>>

GapNext == FBegin \/ SyncGap

GapSpec == GapInit /\ [][GapNext]_vars

\* the log decoder: parser tasks and the stores that insert log rows
ParserSpecInit == IndexerIdle /\ FetcherIdle /\ ParserInit

ParserNext ==
  \/ \E k \in Logs : StoreLogs(k)
  \/ \E p \in Parsers : ParserFetch(p)
  \/ \E p \in Parsers : ParseLoop(p)
  \/ \E p \in Parsers : StoreTransfers(p)
  \/ \E p \in Parsers : StoreFlags(p)
  \/ \E p \in Parsers : ParserNextPass(p)
  \/ \E p \in Parsers : ParserCrash(p)
  \/ \E p \in Parsers : ParserRestart(p)

ParserSpec == ParserSpecInit /\ [][ParserNext]_vars

\* the two backfill procedures: the passes of sync_chain driven by main (with
\* terminations and restarts, without the head subscriber), or one call of
\* fetch_blocks
BackfillInit == Init \/ FetcherInit

SyncStep ==
  /\ fb_pc = "idle"
  /\ MainStep \/ Terminate \/ Restart

BackfillNext == SyncStep \/ FetcherNext

BackfillSpec == BackfillInit /\ [][BackfillNext]_vars

\* the decoder repeated over a log table that receives no new row: every
\* content of the stored logs, every flag null or false, no transfer stored,
\* and no storage call that fails
DecoderInit ==
  /\ IndexerIdle
  /\ FetcherIdle
  /\ chain_logs \in {f \in [Logs -> UNION {ShapesOf(k) : k \in Logs}] :
                     \A k \in Logs : f[k] \in ShapesOf(k)}
  /\ logsTbl \in [Logs -> {"absent", "unset", "false"}]
  /\ transfersTbl = <<>>
  /\ psPc = [p \in Parsers |-> "idle"]
  /\ page = [p \in Parsers |-> <<>>]
  /\ db_erc20_transfers = [p \in Parsers |-> <<>>]
  /\ db_parsed_logs = [p \in Parsers |-> <<>>]
  /\ psFaults = MaxParserFaults
  /\ firstTransfer = [k \in Logs |-> None]
  /\ reparsed = {}

DecoderNext ==
  \/ \E p \in Parsers : ParserFetch(p)
  \/ \E p \in Parsers : ParseLoop(p)
  \/ \E p \in Parsers : StoreTransfers(p)
  \/ \E p \in Parsers : StoreFlags(p)
  \/ \E p \in Parsers : ParserNextPass(p)
  \/ \E p \in Parsers : ParserRestart(p)

\* every pass goes on: fetch is followed by parse, parse runs to its end, and
\* the caller repeats the pass after a return and after a panic
DecoderFairness ==
  \A p \in Parsers :
    /\ WF_vars(ParserFetch(p))
    /\ WF_vars(ParseLoop(p))
    /\ WF_vars(StoreTransfers(p))
    /\ WF_vars(StoreFlags(p))
    /\ WF_vars(ParserNextPass(p))
    /\ WF_vars(ParserRestart(p))

DecoderSpec == DecoderInit /\ [][DecoderNext]_vars /\ DecoderFairness


(***************************************************************************)
(* Claims about the indexer (Spec, FairSpec).                              *)
(***************************************************************************)

\* C1: once a task has written a block number into the persisted
\* IndexedBlockSet, the number stays in the persisted set in every later state:
\* no step of sync_chain or of a head task removes a member.
C1_NoAdditionLost == [][persisted \subseteq persisted']_vars

\* C2: in every reachable state, every member of the persisted IndexedBlockSet
\* is a block whose whole bundle (block row, all its transactions, one receipt
\* per transaction) is in the tables.
C2_MemberImpliesStored == \A n \in persisted : FullyStored(n)

\* a bundle whose transactions match the declared count and whose receipts
\* match the transactions
Complete(b) ==
  /\ Cardinality(b.txs) = b.declared
  /\ Cardinality(b.receipts) = Cardinality(b.txs)

C4_FailureIsolated == mainPc # "panic_fetch_block"

\* C7: no block that was completely stored when the process was terminated is
\* fetched again by a backfill pass after the restart.
C7_NoRefetch == refetched = {}


\* the head subscriber holds a live subscription
Subscribed == hsPc = "listening" /\ stream = "live"

\* C5: the supervising task of the head subscriber never terminates on its
\* own, and whenever the websocket could not be opened or the subscription
\* stream has ended, the subscriber is eventually subscribed again.
C5_SubscriberSupervised ==
  /\ [](hsPc # "panicked")
  /\ (hsPc = "sleep" \/ stream = "ended") ~> Subscribed

\* the block numbers of [start, tip)
Range == StartBlock..(chainTip - 1)

\* C6: restart liveness.  With finitely many terminations and failed fetches,
\* every block of [start, tip) is eventually, and from then on, completely
\* stored and a member of the persisted IndexedBlockSet.
C6_RestartLiveness ==
  <>[](\A n \in Range : FullyStored(n) /\ n \in persisted)


(***************************************************************************)
(* Claims about the gap and about fetch_blocks (GapSpec, FetcherSpec).     *)
(***************************************************************************)

\* seq is exactly the integers of [start, last) that are not in S, ascending
\* (so each once)
IsGap(seq, start, last, S) ==
  /\ SeqSet(seq) = {n \in start..(last - 1) : n \notin S}
  /\ \A i \in DOMAIN seq : \A j \in DOMAIN seq : i < j => seq[i] < seq[j]
  /\ start >= last => seq = <<>>

\* C8: gap correctness.  For every start, tip and stored set, the missing list
\* computed by fetch_blocks and the one computed by sync_chain are exactly the
\* integers of [start, tip) not in the set, ascending, each once, nothing
\* outside the range, empty when start >= tip.
C8_GapCorrect ==
  /\ fb_pc = "partition" => IsGap(fb_missing, fb_start, fb_last, fb_db)
  /\ mainPc = "gap" => IsGap(missing_blocks, fb_start, fb_last, fb_db)

\* C8 witness: both lists are computed, the gap has a hole in the middle and
\* the set has members outside the range
C8_Witness ==
  /\ fb_pc = "partition"
  /\ mainPc = "gap"
  /\ Len(fb_missing) >= 2
  /\ \E n \in fb_db : fb_missing[1] < n /\ n < fb_missing[Len(fb_missing)]
  /\ \E n \in fb_db : n < fb_start
  /\ \E n \in fb_db : n >= fb_last

\* the block numbers handed to provider i
Assigned(i) == IF i \in DOMAIN fb_providers_chunk THEN SeqSet(fb_providers_chunk[i]) ELSE {}

\* C9: for every missing list and every provider count P >= 1, fetch_blocks
\* partitions the list into P slices, one per provider, and every missing block
\* number is assigned to exactly one provider.
C9_PartitionCovers ==
  fb_pc \in {"spawn", "join", "returned"} =>
       /\ \A n \in SeqSet(fb_missing) : \E i \in 1..fb_providers : n \in Assigned(i)
       /\ \A i \in 1..fb_providers : \A j \in 1..fb_providers :
            i # j => Assigned(i) \cap Assigned(j) = {}

\* the pass of the single provider is over: fetch_blocks has returned, or it
\* stopped at the partition of an empty list
PassOver == fb_pc \in {"returned", "panic_partition"}
PassLog == IF fb_pc = "returned" THEN fb_log[1] ELSE <<>>

\* the super-chunks of the whole missing list, in order
SuperChunksOfMissing == ChunksOf(fb_missing, fb_batch * fb_workers)

\* the positions of the fetch events of a log
FetchAt(log) == {p \in DOMAIN log : log[p].op = "fetch"}

\* the log of a pass: super-chunk 1, its stores, super-chunk 2, its stores, ...
\* where StoresOf(sc) are the sets of store events allowed after super-chunk sc
PassShape(log, StoresOf(_)) ==
  /\ Cardinality(FetchAt(log)) = Len(SuperChunksOfMissing)
  /\ \A p \in FetchAt(log) :
       LET k == Cardinality({q \in FetchAt(log) : q <= p})
           after == {q \in DOMAIN log : q > p /\ \A r \in FetchAt(log) : r > p => q < r}
       IN /\ log[p].blocks = SuperChunksOfMissing[k]
          /\ {log[q].blocks : q \in after} = StoresOf(SuperChunksOfMissing[k])
          /\ Cardinality(after) = Cardinality(StoresOf(SuperChunksOfMissing[k]))
  /\ log # <<>> => log[1].op = "fetch"

ParseRan(p) == psPc[p] \in {"returned", "panic_decode"}

\* the stored transfer rows of log k
TransferRows(k) == {i \in DOMAIN transfersTbl : RowKey(transfersTbl[i]) = LogKey(k)}

\* a topic or payload that decodes: present, well-formed hex of 32 bytes
Decodes(s) == s # None /\ s.wf /\ s.len = WordLen

\* a well-formed Transfer: three topics, the signature hash, and both address
\* topics and the payload decode
IsTransfer(shape) ==
  /\ Len(shape.topics) = 3
  /\ shape.topics[1] = Word(TransferSignature)
  /\ Decodes(shape.topics[2])
  /\ Decodes(shape.topics[3])
  /\ Decodes(shape.data)

\* the integer a string of decimal digits denotes
RECURSIVE DecimalValue(_)
DecimalValue(d) ==
  IF d = <<>> THEN 0 ELSE 10 * DecimalValue(SubSeq(d, 1, Len(d) - 1)) + d[Len(d)]

\* row is the transfer record of the well-formed Transfer log k
IsRecordOf(row, k) ==
  /\ RowKey(row) = LogKey(k)
  /\ row.token = HexString(AddressLen, LogAddress(k))
  /\ row.from_address = HexString(AddressLen, chain_logs[k].topics[2].val % AddressSpace)
  /\ row.to_address = HexString(AddressLen, chain_logs[k].topics[3].val % AddressSpace)
  /\ Len(row.value) >= 1
  /\ \A i \in DOMAIN row.value : row.value[i] \in 0..9
  /\ Len(row.value) > 1 => row.value[1] # 0
  /\ DecimalValue(row.value) = chain_logs[k].data.val

\* C11: after parse has run on a page, every log of the page has its parse
\* flag stored as true, whatever the decode outcome of the logs of the page.
C11_PageMarkedParsed ==
  \A p \in Parsers : ParseRan(p) =>
    \A i \in DOMAIN page[p] : logsTbl[page[p][i]] = "true"

\* C12: a decode failure on a log of the page is no hard error: parse returns,
\* the failing log has no transfer row, and every well-formed Transfer of the
\* page has its row stored.
C12_DecodeFailureSoft ==
  \A p \in Parsers : ParseRan(p) =>
    /\ psPc[p] = "returned"
    /\ \A i \in DOMAIN page[p] :
         IF IsTransfer(chain_logs[page[p][i]])
         THEN TransferRows(page[p][i]) # {}
         ELSE TransferRows(page[p][i]) = {}

\* C13: once the stored parse flag of a log is true it is true in every later
\* state, whatever decoder passes and stores of the same log row follow.
C13_ParseFlagMonotonic ==
  [][\A k \in Logs : logsTbl[k] = "true" => logsTbl'[k] = "true"]_vars

\* C13 witness: a decoder pass has returned with the flags of its page true
\* while another log is stored and not parsed yet (stores and passes go on)
C13_Witness ==
  /\ \E p \in Parsers :
       /\ psPc[p] = "returned"
       /\ page[p] # <<>>
       /\ \A i \in DOMAIN page[p] : logsTbl[page[p][i]] = "true"
  /\ \E k \in Logs : logsTbl[k] \in {"unset", "false"}

\* C14: whatever number of times parse has run over a log, the transfers table
\* holds at most one row with the log's (hash, log index), and it is the row
\* stored the first time.
C14_TransferIdempotent ==
  \A k \in Logs :
    /\ Cardinality(TransferRows(k)) <= 1
    /\ \A i \in TransferRows(k) : transfersTbl[i] = firstTransfer[k]
    /\ firstTransfer[k] # None => TransferRows(k) # {}

\* C14 witness: parse has collected the row of a log again while the row of an
\* earlier run over the same log is stored, and has passed its insert
C14_Witness ==
  \E k \in reparsed : Cardinality(TransferRows(k)) = 1

\* C15: after parse has run on a page, a log of the page has a transfer row if
\* and only if it is a well-formed Transfer (three topics, the signature hash,
\* topics 1, 2 and the payload decode), and the row carries the log's key, the
\* emitting address, the two addresses and the decimal string of the value.
C15_RecordIffTransfer ==
  \A p \in Parsers : ParseRan(p) =>
    \A i \in DOMAIN page[p] :
      LET k == page[p][i]
      IN /\ IsTransfer(chain_logs[k]) <=> TransferRows(k) # {}
         /\ \A j \in TransferRows(k) : IsRecordOf(transfersTbl[j], k)

(***************************************************************************)
(* Claims about storage failures and the backfill procedures (Spec,        *)
(* BackfillSpec, FetcherSpec).                                             *)
(***************************************************************************)

\* C16: a failing store or checkpoint write is confined to its chunk: it does
\* not take down main, whose driver loop goes on with the remaining chunks.
C16_StorageFailureIsolated == mainPc # "panic_checkpoint"

\* the block numbers handed to store_data so far
SubmittedNumbers == {b.number : b \in submitted}

\* the positions of the store events of a log
StoreAt(log) == {p \in DOMAIN log : log[p].op = "store"}

\* the last fetch event of a log before position p
LastFetchBefore(log, p) ==
  CHOOSE q \in FetchAt(log) : q < p /\ \A r \in FetchAt(log) : r < p => r <= q

\* C17: the store of a super-chunk follows the completion of every fetch of
\* that super-chunk, and the checkpoint follows the store call.  sync_chain:
\* at the checkpoint no fetch of the chunk is pending and the numbers it adds
\* were handed to store_data.  fetch_blocks: while a provider stores, none of
\* its get_blocks calls is pending, and every store is a batch of the
\* super-chunk fetched last.
C17_JoinBarrier ==
  /\ mainPc = "checkpoint" =>
       /\ \A n \in DOMAIN results : results[n] # Pending
       /\ db_blocks \subseteq SubmittedNumbers
       /\ db_blocks \subseteq DOMAIN results
  /\ persisted \subseteq SubmittedNumbers
  /\ \A i \in DOMAIN fb_tasks :
       /\ fb_tasks[i].pc = "store" =>
            \A j \in DOMAIN fb_tasks[i].responses : fb_tasks[i].responses[j] # Pending
       /\ \A p \in StoreAt(fb_log[i]) :
            /\ \E q \in FetchAt(fb_log[i]) : q < p
            /\ SeqSet(fb_log[i][p].blocks)
                 \subseteq SeqSet(fb_log[i][LastFetchBefore(fb_log[i], p)].blocks)

\* C17 witness: a provider of fetch_blocks has stored a batch of its second
\* super-chunk while another store of that super-chunk is still to run
C17_Witness ==
  \E i \in DOMAIN fb_tasks :
    /\ fb_tasks[i].pc = "store"
    /\ fb_tasks[i].k = 2
    /\ fb_tasks[i].stores # {}
    /\ \E p \in StoreAt(fb_log[i]) : LastFetchBefore(fb_log[i], p) > 1

\* the blocks provider i has fetched and not stored yet
Unstored(i) ==
  IF fb_tasks[i].pc = "fetch"
  THEN UNION {fb_tasks[i].responses[j].blocks :
                j \in {x \in DOMAIN fb_tasks[i].responses :
                         fb_tasks[i].responses[x].kind = "ok"}}
  ELSE IF fb_tasks[i].pc = "store"
  THEN UNION {fb_tasks[i].responses[j].blocks : j \in fb_tasks[i].stores}
  ELSE {}

\* the blocks sync_chain has fetched and not handed to store_data yet
UnstoredMain ==
  IF mainPc = "fetch" THEN {n \in DOMAIN results : results[n].kind = "some"} ELSE {}

\* C18: the blocks fetched and not stored yet are at most one super-chunk per
\* provider (batch_size * workers; batch_size for sync_chain), and the fetches
\* of a super-chunk start only when no store of the one before it is left.
C18_InFlightBounded ==
  /\ Cardinality(UnstoredMain) <= BatchSize
  /\ mainPc = "fetch" => db_blocks = {}
  /\ \A i \in DOMAIN fb_tasks :
       /\ Cardinality(Unstored(i)) <= fb_batch * fb_workers
       /\ Cardinality(DOMAIN fb_tasks[i].responses) <= fb_workers
       /\ fb_tasks[i].pc = "fetch" => fb_tasks[i].stores = {}

\* C18 witness: a provider holds a whole super-chunk of two batches, fetched
\* and not stored, after an earlier super-chunk
C18_Witness ==
  \E i \in DOMAIN fb_tasks :
    /\ fb_tasks[i].k >= 2
    /\ fb_batch * fb_workers >= 2
    /\ fb_workers = 2
    /\ Cardinality(Unstored(i)) = fb_batch * fb_workers

\* the steps of the task of provider i
ProviderStep(i) ==
  \/ \E j \in 1..MaxWorkers : GetBlocks(i, j)
  \/ Collect(i)
  \/ \E j \in 1..MaxWorkers : StoreBatch(i, j)
  \/ JoinStores(i)

\* the fetch events of provider i are the super-chunks of its slice, in order
FetchedWholeSlice(i) ==
  /\ Cardinality(FetchAt(fb_log[i])) = NumChunks(fb_providers_chunk[i], SuperChunkSize)
  /\ \A p \in FetchAt(fb_log[i]) :
       fb_log[i][p].blocks = SuperChunk(i, Cardinality({q \in FetchAt(fb_log[i]) : q <= p}))

\* C19: a provider task that has failed stops no other one: every other task
\* that has not ended can take a step, a task that ends without failing has gone
\* through every super-chunk of its slice, and once every task has ended
\* fetch_blocks returns.
C19_ProviderIsolation ==
  /\ \A i \in DOMAIN fb_tasks :
       /\ ( /\ fb_pc = "join"
            /\ fb_tasks[i].pc \in {"fetch", "store"}
            /\ \E j \in DOMAIN fb_tasks : fb_tasks[j].pc = "panicked" )
            => ENABLED ProviderStep(i)
       /\ fb_tasks[i].pc = "done" => FetchedWholeSlice(i)
  /\ (fb_pc = "join" /\ \A i \in DOMAIN fb_tasks : fb_tasks[i].pc \in {"done", "panicked"})
       => ENABLED FJoin
  /\ fb_pc = "returned" => \A i \in DOMAIN fb_tasks : fb_tasks[i].pc \in {"done", "panicked"}

\* C19 witness: fetch_blocks has returned, the task of one provider has
\* panicked and the task of another has stored its whole slice
C19_Witness ==
  /\ fb_pc = "returned"
  /\ \E i, j \in DOMAIN fb_tasks :
       /\ fb_tasks[i].pc = "panicked"
       /\ fb_tasks[j].pc = "done"
       /\ fb_providers_chunk[j] # <<>>
       /\ SeqSet(fb_providers_chunk[j]) \subseteq fb_db

\* C20: fetch_blocks returns for every gap, the empty one and those shorter
\* than the number of providers included: it does not panic at the partition,
\* and it fetches no block that was stored when it was called.
C20_ReturnsForEveryGap ==
  /\ fb_pc # "panic_partition"
  /\ \A i \in DOMAIN fb_log : \A p \in FetchAt(fb_log[i]) :
       SeqSet(fb_log[i][p].blocks) \cap fb_db0 = {}

\* the transfer rows parser p has collected are all stored
RowsStored(p) ==
  \A i \in DOMAIN db_erc20_transfers[p] :
    \E j \in DOMAIN transfersTbl : transfersTbl[j] = db_erc20_transfers[p][i]

\* C21: a log the decoder has flagged as parsed and that is a well-formed
\* Transfer has its transfer row stored, whatever panics and terminations took
\* place; the rows of a page are all stored when its flags are being written.
C21_FlagImpliesTransfer ==
  /\ \A k \in Logs :
       (logsTbl[k] = "true" /\ IsTransfer(chain_logs[k])) => TransferRows(k) # {}
  /\ \A p \in Parsers :
       psPc[p] \in {"store_flags", "returned", "panic_store_flags"} => RowsStored(p)

\* C21 witness: a parser was terminated between the two write loops: a
\* Transfer has its row stored and its flag not flipped, while another
\* Transfer, of an earlier page, is flagged and has its row
C21_Witness ==
  /\ \E p \in Parsers : psPc[p] = "down"
  /\ \E k \in Logs :
       /\ IsTransfer(chain_logs[k])
       /\ TransferRows(k) # {}
       /\ logsTbl[k] \in {"unset", "false"}
  /\ \E k \in Logs :
       /\ IsTransfer(chain_logs[k])
       /\ logsTbl[k] = "true"
       /\ TransferRows(k) # {}

\* C22: with no new log inserted, the repeated passes of fetch and parse reach
\* a state in which fetch selects no log: every stored log is flagged as parsed,
\* whatever the stored logs hold.
C22_DecoderProgress == <>(Unparsed = {})

=============================================================================
